---- MODULE Spec2Model ----
(***************************************************************************)
(* Model of the bus-timing Telegram bot (src/src/lib.rs): one webhook      *)
(* invocation of `main`, which resolves its configuration and runs         *)
(* `handle_request`.  Every `.await` of the source is a step of the model; *)
(* the synchronous code after an await belongs to the step that follows it.*)
(*                                                                         *)
(* Rust values are represented as follows.                                 *)
(*   Option<T>      None is <<>>, Some(v) is <<v>>                         *)
(*   String built by format!/to_string   a sequence of string fragments,   *)
(*                  concatenation is \o (decimal renderings are one        *)
(*                  fragment per character)                                *)
(*   String matched as a whole (text, data, service_no)   a TLA+ string    *)
(*   RFC 3339 timestamp "1970-01-01T00:MM:SS+00:00"   [mm |-> MM, ss |-> SS]*)
(*   Result<Response>   [tag |-> "Ok", body] or [tag |-> "Err", at, msg,    *)
(*                  arg], `at` naming the expression that produced it      *)
(***************************************************************************)
EXTENDS Integers, Sequences, FiniteSets, TLC

VARIABLES pc, env, req, cfg, update, chat_id, lta_resp, now, bus_timings,
          telegram_message, tg_resp, result, calls, error_log

vars == <<pc, env, req, cfg, update, chat_id, lta_resp, now, bus_timings,
          telegram_message, tg_resp, result, calls, error_log>>

\* Largest number of services in one arrival response.
MaxServices == 2

(***************************************************************************)
(* Option and string helpers.                                              *)
(***************************************************************************)
None == <<>>

Some(v) == <<v>>

IsSome(o) == Len(o) = 1

Unwrap(o) == o[1]

Digits == <<"0", "1", "2", "3", "4", "5", "6", "7", "8", "9">>

RECURSIVE NatToString(_)
NatToString(n) ==
    IF n < 10 THEN <<Digits[n + 1]>>
    ELSE NatToString(n \div 10) \o <<Digits[(n % 10) + 1]>>

\* i64::to_string: decimal digits, a leading "-" for negatives, no padding.
I64ToString(n) == IF n < 0 THEN <<"-">> \o NatToString(-n) ELSE NatToString(n)

\* Rust's integer `/`: truncates toward zero.
TruncDiv(a, b) == IF a >= 0 THEN a \div b ELSE -((-a) \div b)

Err(at, msg, arg) == [tag |-> "Err", at |-> at, msg |-> msg, arg |-> arg]

Pending == [tag |-> "Pending"]

OkResponse == [tag |-> "Ok", body |-> "OK"]

(***************************************************************************)
(* Inputs: the configuration store, the webhook body, the two platforms'   *)
(* answers and the clock.                                                  *)
(***************************************************************************)
ChatIds == {7, 42, -5}

AllowedChatIdStrings == {<<"7">>, <<"0", "7">>, <<"4", "2">>}

Texts == {"/start", "hello"}

CallbackData == {"request_timings", "foo"}

FullEnv(allowed) ==
    [lta_api_key |-> Some("lta-key"), telegram_api_key |-> Some("tg-key"),
     kv_bound |-> TRUE, code |-> Some("83139"), chat_id |-> Some(allowed)]

Envs ==
    LET full == FullEnv(<<"7">>) IN
    {FullEnv(a) : a \in AllowedChatIdStrings}
    \cup {[full EXCEPT !.lta_api_key = None],
          [full EXCEPT !.telegram_api_key = None],
          [full EXCEPT !.kv_bound = FALSE],
          [full EXCEPT !.code = None],
          [full EXCEPT !.chat_id = None]}

\* JSON `message` objects; `chat` is a required field of Message.
RawMessages ==
    {[chat |-> Some([id |-> c]), text |-> t] :
        c \in ChatIds, t \in {None} \cup {Some(x) : x \in Texts}}

MalformedMessage == [chat |-> None, text |-> Some("/start")]

RawCallbackQueries ==
    {[data |-> d, message |-> [chat |-> Some([id |-> c]), text |-> None]] :
        d \in CallbackData, c \in ChatIds}

\* Webhook bodies: `json` is whether the body is well-formed JSON at all.
Requests ==
    {[json |-> TRUE, message |-> m, callback_query |-> q] :
        m \in {None} \cup {Some(x) : x \in RawMessages},
        q \in {None} \cup {Some(x) : x \in RawCallbackQueries}}
    \cup {[json |-> FALSE, message |-> None, callback_query |-> None],
          [json |-> TRUE, message |-> Some(MalformedMessage), callback_query |-> None]}

\* Clock readings (epoch seconds).
Nows == {0, 100, 110}

Timestamps ==
    {[mm |-> 1, ss |-> 40], [mm |-> 2, ss |-> 10], [mm |-> 3, ss |-> 45],
     [mm |-> 99, ss |-> 0]}

Estimates == {None} \cup {Some(t) : t \in Timestamps}

BusArrival(e) == [estimated_arrival |-> e]

BusService(sn, e1, e2, e3) ==
    [service_no |-> sn, next_bus |-> BusArrival(e1),
     next_bus2 |-> BusArrival(e2), next_bus3 |-> BusArrival(e3)]

AllServices == {BusService("15", e1, e2, e3) : e1, e2, e3 \in Estimates}

SomeServices ==
    {BusService("15", Some([mm |-> 3, ss |-> 45]), None, Some([mm |-> 99, ss |-> 0])),
     BusService("20", Some([mm |-> 2, ss |-> 10]), Some([mm |-> 3, ss |-> 45]), None),
     BusService("147", None, None, None)}

SeqsUpTo(S, lo, hi) == UNION {[1..n -> S] : n \in lo..hi}

\* Bodies of the arrival API: every one-service body, and longer ones over
\* three services with distinct numbers.
ServiceLists ==
    {<<>>} \cup {<<s>> : s \in AllServices} \cup SeqsUpTo(SomeServices, 2, MaxServices)

(***************************************************************************)
(* Pure code: parsing, authorization, arrival display, formatting.         *)
(***************************************************************************)
\* Variant of ParseUpdate: a body with neither field is rejected while parsing.
ParseUpdateStrict(r) ==
    IF ~r.json \/ (~IsSome(r.message) /\ ~IsSome(r.callback_query)) THEN None
    ELSE IF IsSome(r.message) /\ ~IsSome(Unwrap(r.message).chat) THEN None
    ELSE Some([message |->
                  IF IsSome(r.message)
                  THEN Some([chat |-> Unwrap(Unwrap(r.message).chat),
                             text |-> Unwrap(r.message).text])
                  ELSE None,
               callback_query |->
                  IF IsSome(r.callback_query)
                  THEN Some([data |-> Unwrap(r.callback_query).data,
                             message |->
                                [chat |-> Unwrap(Unwrap(r.callback_query).message.chat),
                                 text |-> Unwrap(r.callback_query).message.text]])
                  ELSE None])

\* serde: `chat` is required in every Message, `message` and `callback_query`
\* are optional in TelegramUpdate (a missing Option field is None).
MessageParses(m) == IsSome(m.chat)

ParseMessage(m) == [chat |-> Unwrap(m.chat), text |-> m.text]

ParseUpdate(r) ==
    IF ~r.json THEN None
    ELSE IF IsSome(r.message) /\ ~MessageParses(Unwrap(r.message)) THEN None
    ELSE IF IsSome(r.callback_query)
            /\ ~MessageParses(Unwrap(r.callback_query).message) THEN None
    ELSE Some([message |->
                  IF IsSome(r.message)
                  THEN Some(ParseMessage(Unwrap(r.message))) ELSE None,
               callback_query |->
                  IF IsSome(r.callback_query)
                  THEN Some([data |-> Unwrap(r.callback_query).data,
                             message |-> ParseMessage(Unwrap(r.callback_query).message)])
                  ELSE None])

\* Variant of ExtractChatId: the top-level message is preferred.
ExtractChatIdMessageFirst(u) ==
    IF IsSome(u.message) THEN Some(Unwrap(u.message).chat.id)
    ELSE IF IsSome(u.callback_query) THEN Some(Unwrap(u.callback_query).message.chat.id)
    ELSE None

ExtractChatId(u) ==
    IF IsSome(u.callback_query) THEN Some(Unwrap(u.callback_query).message.chat.id)
    ELSE IF IsSome(u.message) THEN Some(Unwrap(u.message).chat.id)
    ELSE None

RECURSIVE DecimalValue(_)
DecimalValue(str) ==
    IF Len(str) = 0 THEN 0
    ELSE 10 * DecimalValue(SubSeq(str, 1, Len(str) - 1))
         + (CHOOSE d \in 0..9 : Digits[d + 1] = str[Len(str)])

\* Variant of IsAllowed: the ids are compared as numbers.
IsAllowedNumeric(id, allowed_chat_id) == id = DecimalValue(allowed_chat_id)

IsAllowed(id, allowed_chat_id) == I64ToString(id) = allowed_chat_id

\* DateTime::parse_from_rfc3339(time).map(|dt| dt.timestamp())
ParseTimestamp(t) ==
    IF t.mm \in 0..59 /\ t.ss \in 0..59 THEN Some(t.mm * 60 + t.ss) ELSE None

\* Variant of ArrivalTime: an unparseable timestamp falls back to a day ahead.
ArrivalTimeFallbackAhead(t) ==
    IF t.mm \in 0..59 /\ t.ss \in 0..59 THEN t.mm * 60 + t.ss ELSE 86400

ArrivalTime(t) == IF IsSome(ParseTimestamp(t)) THEN Unwrap(ParseTimestamp(t)) ELSE 0

\* Variant of format_arrival: "ARR" only for diff_minutes < 0.
format_arrival_strict(arrival, t_now) ==
    IF IsSome(arrival.estimated_arrival)
    THEN LET arrival_time == ArrivalTime(Unwrap(arrival.estimated_arrival))
             diff_minutes == TruncDiv(arrival_time - t_now, 60)
         IN  IF diff_minutes < 0 THEN <<"ARR">>
             ELSE I64ToString(diff_minutes) \o <<" min">>
    ELSE <<"NIL">>

format_arrival(arrival, t_now) ==
    IF IsSome(arrival.estimated_arrival)
    THEN LET arrival_time == ArrivalTime(Unwrap(arrival.estimated_arrival))
             diff_minutes == TruncDiv(arrival_time - t_now, 60)
         IN  IF diff_minutes <= 0 THEN <<"ARR">>
             ELSE I64ToString(diff_minutes) \o <<" min">>
    ELSE <<"NIL">>

BusTiming(service, t_now) ==
    [service_no |-> service.service_no,
     next_arrival |-> format_arrival(service.next_bus, t_now),
     next_arrival_2 |-> format_arrival(service.next_bus2, t_now),
     next_arrival_3 |-> format_arrival(service.next_bus3, t_now)]

ComputeBusTimings(services, t_now) ==
    [i \in 1..Len(services) |-> BusTiming(services[i], t_now)]

Separator == "\\-\\-\\-\\-\\-\\-\\-\\-\\-\\-\\-\\-\\-\\-\\-\\-\\-\\-\\-\\-\\-\\-\\-\\-\\-\\-\n"

FormatBlock(bus) ==
    <<"*Service No:* ", bus.service_no, "\n", "*Next Arrival:* ">>
    \o bus.next_arrival \o <<"\n", "*Next Arrival 2:* ">>
    \o bus.next_arrival_2 \o <<"\n", "*Next Arrival 3:* ">>
    \o bus.next_arrival_3 \o <<"\n", Separator>>

RECURSIVE Join(_, _)
Join(blocks, sep) ==
    IF Len(blocks) = 0 THEN <<>>
    ELSE IF Len(blocks) = 1 THEN blocks[1]
    ELSE blocks[1] \o sep \o Join(Tail(blocks), sep)

\* Variant of format_bus_timings_message: the last service is left out.
format_bus_timings_message_short(timings) ==
    <<"*Bus Timings:*\n\n">>
    \o Join([i \in 1..(Len(timings) - 1) |-> FormatBlock(timings[i])], <<"\n">>)

format_bus_timings_message(timings) ==
    <<"*Bus Timings:*\n\n">>
    \o Join([i \in 1..Len(timings) |-> FormatBlock(timings[i])], <<"\n">>)

RequestButton == [text |-> "Request Bus Timings", callback_data |-> "request_timings"]

\* Variant of get_telegram_message_with_request_button: no reply markup.
get_telegram_message_without_button(id, text) ==
    [chat_id |-> id, text |-> text, parse_mode |-> "MarkdownV2", reply_markup |-> None]

get_telegram_message_with_request_button(id, text) ==
    [chat_id |-> id, text |-> text, parse_mode |-> "MarkdownV2",
     reply_markup |-> Some([inline_keyboard |-> <<<<RequestButton>>>>])]

WelcomeMessage ==
    <<"Welcome to the Bus Arrival Bot! Click the button below to request bus timings:">>

\* Variant of Dispatch: every callback query asks for the timings.
DispatchAnyCallback(u) ==
    IF IsSome(u.callback_query) THEN [kind |-> "fetch"]
    ELSE IF ~IsSome(u.message)
         THEN [kind |-> "err", err |-> Err("message", "No message found in request", <<>>)]
    ELSE IF ~IsSome(Unwrap(u.message).text)
         THEN [kind |-> "err", err |-> Err("message.text", "No message found in request", <<>>)]
    ELSE IF Unwrap(Unwrap(u.message).text) = "/start"
         THEN [kind |-> "start"]
    ELSE [kind |-> "err",
          err |-> Err("message.text", "Invalid message",
                      <<Unwrap(Unwrap(u.message).text)>>)]

\* The `match` of lines 220-253 up to its first await: what the update asks for.
Dispatch(u) ==
    IF IsSome(u.callback_query)
    THEN LET data == Unwrap(u.callback_query).data
         IN  IF data = "request_timings" THEN [kind |-> "fetch"]
             ELSE [kind |-> "err",
                   err |-> Err("callback_query.data", "Invalid callback query", <<data>>)]
    ELSE IF ~IsSome(u.message)
         THEN [kind |-> "err", err |-> Err("message", "No message found in request", <<>>)]
    ELSE IF ~IsSome(Unwrap(u.message).text)
         THEN [kind |-> "err", err |-> Err("message.text", "No message found in request", <<>>)]
    ELSE IF Unwrap(Unwrap(u.message).text) = "/start"
         THEN [kind |-> "start"]
    ELSE [kind |-> "err",
          err |-> Err("message.text", "Invalid message",
                      <<Unwrap(Unwrap(u.message).text)>>)]

\* The first configuration lookup of main that fails, in source order.
ConfigError(e) ==
    IF ~IsSome(e.lta_api_key) THEN Some(Err("env.secret", "LTA_API_KEY", <<>>))
    ELSE IF ~IsSome(e.telegram_api_key) THEN Some(Err("env.secret", "TELEGRAM_API_KEY", <<>>))
    ELSE IF ~e.kv_bound THEN Some(Err("env.kv", "bus_stops", <<>>))
    ELSE IF ~IsSome(e.code) THEN Some(Err("kv.get", "No bus stop codes found", <<>>))
    ELSE IF ~IsSome(e.chat_id) THEN Some(Err("kv.get", "No allowed chat id found", <<>>))
    ELSE None

(***************************************************************************)
(* The invocation.                                                         *)
(***************************************************************************)
Init ==
    /\ pc = "main"
    /\ env \in Envs
    /\ req \in Requests
    /\ cfg = None
    /\ update = None
    /\ chat_id = None
    /\ lta_resp = None
    /\ now = None
    /\ bus_timings = None
    /\ telegram_message = None
    /\ tg_resp = None
    /\ result = Pending
    /\ calls = <<>>
    /\ error_log = <<>>

\* main, lines 267-280: the secrets and the two KV reads.
MainConfig ==
    /\ pc = "main"
    /\ calls' = Append(calls, "config")
    /\ IF IsSome(ConfigError(env))
       THEN /\ result' = Unwrap(ConfigError(env))
            /\ pc' = "done"
            /\ cfg' = cfg
       ELSE /\ cfg' = Some([lta_api_key |-> Unwrap(env.lta_api_key),
                            telegram_api_key |-> Unwrap(env.telegram_api_key),
                            bus_stop_code |-> Unwrap(env.code),
                            allowed_chat_id |-> Unwrap(env.chat_id)])
            /\ pc' = "req_json"
            /\ result' = result
    /\ UNCHANGED <<env, req, update, chat_id, lta_resp, now, bus_timings,
                   telegram_message, tg_resp, error_log>>

\* handle_request, line 201.
ReqJson ==
    /\ pc = "req_json"
    /\ calls' = Append(calls, "parse")
    /\ IF IsSome(ParseUpdate(req))
       THEN /\ update' = ParseUpdate(req)
            /\ pc' = "chat_id"
            /\ result' = result
       ELSE /\ result' = Err("req.json", "serde", <<>>)
            /\ pc' = "return"
            /\ update' = update
    /\ UNCHANGED <<env, req, cfg, chat_id, lta_resp, now, bus_timings,
                   telegram_message, tg_resp, error_log>>

\* handle_request, lines 205-211.
ChatId ==
    /\ pc = "chat_id"
    /\ IF IsSome(ExtractChatId(Unwrap(update)))
       THEN /\ chat_id' = ExtractChatId(Unwrap(update))
            /\ pc' = "authorize"
            /\ result' = result
       ELSE /\ result' = Err("chat_id", "No chat id found in request", <<>>)
            /\ pc' = "return"
            /\ chat_id' = chat_id
    /\ UNCHANGED <<env, req, cfg, update, lta_resp, now, bus_timings,
                   telegram_message, tg_resp, calls, error_log>>

\* handle_request, lines 213-218.
Authorize ==
    /\ pc = "authorize"
    /\ calls' = Append(calls, "authorize")
    /\ IF IsAllowed(Unwrap(chat_id), Unwrap(cfg).allowed_chat_id)
       THEN /\ pc' = "dispatch"
            /\ result' = result
       ELSE /\ result' = Err("allowed_chat_id", "Chat ID is not allowed",
                             I64ToString(Unwrap(chat_id)))
            /\ pc' = "return"
    /\ UNCHANGED <<env, req, cfg, update, chat_id, lta_resp, now, bus_timings,
                   telegram_message, tg_resp, error_log>>

\* handle_request, lines 220-253, the branches that do not await.
DispatchUpdate ==
    /\ pc = "dispatch"
    /\ LET d == Dispatch(Unwrap(update)) IN
       \/ /\ d.kind = "fetch"
          /\ pc' = "fetch_send"
          /\ UNCHANGED <<telegram_message, result>>
       \/ /\ d.kind = "start"
          /\ telegram_message' =
                Some(get_telegram_message_with_request_button(Unwrap(chat_id), WelcomeMessage))
          /\ pc' = "send_message"
          /\ UNCHANGED result
       \/ /\ d.kind = "err"
          /\ result' = d.err
          /\ pc' = "return"
          /\ UNCHANGED telegram_message
    /\ UNCHANGED <<env, req, cfg, update, chat_id, lta_resp, now, bus_timings,
                   tg_resp, calls, error_log>>

\* fetch_bus_timings, lines 129-136: the GET and its transport outcome.
FetchSend ==
    /\ pc = "fetch_send"
    /\ calls' = Append(calls, "fetch")
    /\ \E transport_ok \in BOOLEAN :
          IF transport_ok
          THEN pc' = "fetch_json" /\ result' = result
          ELSE /\ result' = Err("fetch_bus_timings.send", "reqwest", <<>>)
               /\ pc' = "return"
    /\ UNCHANGED <<env, req, cfg, update, chat_id, lta_resp, now, bus_timings,
                   telegram_message, tg_resp, error_log>>

\* Variant of FetchJson: a body that does not parse counts as no services.
FetchJsonLenient ==
    /\ pc = "fetch_json"
    /\ \/ /\ telegram_message' =
                Some(get_telegram_message_with_request_button(
                        Unwrap(chat_id), format_bus_timings_message(<<>>)))
          /\ pc' = "send_message"
          /\ UNCHANGED <<lta_resp, now, bus_timings, result>>
       \/ \E services \in ServiceLists, t_now \in Nows :
             LET timings == ComputeBusTimings(services, t_now)
                 message == format_bus_timings_message(timings)
             IN  /\ lta_resp' = Some([services |-> services])
                 /\ now' = Some(t_now)
                 /\ bus_timings' = Some(timings)
                 /\ telegram_message' =
                       Some(get_telegram_message_with_request_button(Unwrap(chat_id), message))
                 /\ pc' = "send_message"
                 /\ UNCHANGED result
    /\ UNCHANGED <<env, req, cfg, update, chat_id, tg_resp, calls, error_log>>

\* fetch_bus_timings, lines 138-173, then handle_request, lines 225-229.
FetchJson ==
    /\ pc = "fetch_json"
    /\ \/ /\ result' = Err("fetch_bus_timings.json", "reqwest", <<>>)
          /\ pc' = "return"
          /\ UNCHANGED <<lta_resp, now, bus_timings, telegram_message>>
       \/ \E services \in ServiceLists, t_now \in Nows :
             LET timings == ComputeBusTimings(services, t_now)
                 message == format_bus_timings_message(timings)
             IN  /\ lta_resp' = Some([services |-> services])
                 /\ now' = Some(t_now)
                 /\ bus_timings' = Some(timings)
                 /\ telegram_message' =
                       Some(get_telegram_message_with_request_button(Unwrap(chat_id), message))
                 /\ pc' = "send_message"
                 /\ UNCHANGED result
    /\ UNCHANGED <<env, req, cfg, update, chat_id, tg_resp, calls, error_log>>

\* Statuses the chat platform answers with: accepted, or rejected (for
\* instance for markdown it cannot parse).
PlatformStatuses == {"200 OK", "400 Bad Request"}

\* send_message, lines 176-192, awaited at line 256.
SendMessage ==
    /\ pc = "send_message"
    /\ calls' = Append(calls, "send")
    /\ \/ /\ result' = Err("send_message", "reqwest", <<>>)
          /\ pc' = "return"
          /\ UNCHANGED tg_resp
       \/ \E status \in PlatformStatuses :
             /\ tg_resp' = Some([status |-> status, read |-> FALSE])
             /\ pc' = "resp_text"
             /\ UNCHANGED result
    /\ UNCHANGED <<env, req, cfg, update, chat_id, lta_resp, now, bus_timings,
                   telegram_message, error_log>>

\* Variant of RespText: a rejection by the platform is an error.
RespTextChecked ==
    /\ pc = "resp_text"
    /\ \/ /\ result' = Err("resp.text", "reqwest", <<>>)
          /\ UNCHANGED <<tg_resp, calls>>
       \/ /\ tg_resp' = Some([Unwrap(tg_resp) EXCEPT !.read = TRUE])
          /\ IF Unwrap(tg_resp).status = "200 OK"
             THEN result' = OkResponse /\ calls' = Append(calls, "ok")
             ELSE result' = Err("resp.status", "rejected", <<>>) /\ UNCHANGED calls
    /\ pc' = "return"
    /\ UNCHANGED <<env, req, cfg, update, chat_id, lta_resp, now, bus_timings,
                   telegram_message, error_log>>

\* handle_request, lines 257-260: read the body, then answer "OK".
RespText ==
    /\ pc = "resp_text"
    /\ \/ /\ result' = Err("resp.text", "reqwest", <<>>)
          /\ UNCHANGED <<tg_resp, calls>>
       \/ /\ tg_resp' = Some([Unwrap(tg_resp) EXCEPT !.read = TRUE])
          /\ result' = OkResponse
          /\ calls' = Append(calls, "ok")
    /\ pc' = "return"
    /\ UNCHANGED <<env, req, cfg, update, chat_id, lta_resp, now, bus_timings,
                   telegram_message, error_log>>

\* main, lines 290-293: an error of handle_request is logged and returned.
MainReturn ==
    /\ pc = "return"
    /\ error_log' = IF result.tag = "Err" THEN Append(error_log, result) ELSE error_log
    /\ pc' = "done"
    /\ UNCHANGED <<env, req, cfg, update, chat_id, lta_resp, now, bus_timings,
                   telegram_message, tg_resp, result, calls>>

Next ==
    \/ MainConfig
    \/ ReqJson
    \/ ChatId
    \/ Authorize
    \/ DispatchUpdate
    \/ FetchSend
    \/ FetchJson
    \/ SendMessage
    \/ RespText
    \/ MainReturn

Spec == Init /\ [][Next]_vars

(***************************************************************************)
(* Vocabulary of the properties.                                           *)
(***************************************************************************)
Count(seq, x) == Cardinality({i \in DOMAIN seq : seq[i] = x})

\* Positions of x in seq are all before the positions of y.
Before(seq, x, y) ==
    \A i, j \in DOMAIN seq : (seq[i] = x /\ seq[j] = y) => i < j

Returned == pc \in {"return", "done"}

NoOutboundCall == Count(calls, "fetch") = 0 /\ Count(calls, "send") = 0

\* The error kinds, by the expression of handle_request that raises them.
MalformedPayload == result.tag = "Err" /\ result.at = "req.json"

MissingChatId ==
    result.tag = "Err" /\ result.at = "chat_id"
    /\ result.msg = "No chat id found in request"

Unauthorized == result.tag = "Err" /\ result.at = "allowed_chat_id"

InvalidCallback == result.tag = "Err" /\ result.at = "callback_query.data"

InvalidCommand == result.tag = "Err" /\ result.at \in {"message", "message.text"}

DeliveryFailed == result.tag = "Err" /\ result.at = "send_message"

\* handle_request has been entered with a body that parsed.
Parsed == IsSome(cfg) /\ IsSome(update)

HasCallback == Parsed /\ IsSome(Unwrap(update).callback_query)

PlainMessage ==
    Parsed /\ ~IsSome(Unwrap(update).callback_query) /\ IsSome(Unwrap(update).message)

CallbackChatId == Unwrap(req.callback_query).message.chat[1].id

FromAuthorizedChat ==
    IsSome(chat_id) /\ I64ToString(Unwrap(chat_id)) = Unwrap(cfg).allowed_chat_id

\* The tokens of text that directly follow an occurrence of label.
Followers(text, label) ==
    LET idx == SelectSeq([i \in 1..Len(text) |-> i],
                         LAMBDA i : i < Len(text) /\ text[i] = label)
    IN  [k \in 1..Len(idx) |-> text[idx[k] + 1]]

\* C1: an update of a valid shape whose chat id, as a decimal string, differs
\* from the configured authorized chat id leads to no outbound message (and no
\* arrival fetch), and the invocation ends with the Unauthorized error.
C1_UnauthorizedSilentDrop ==
    (Parsed /\ IsSome(chat_id)
        /\ I64ToString(Unwrap(chat_id)) # Unwrap(cfg).allowed_chat_id)
    => /\ NoOutboundCall
       /\ telegram_message = None
       /\ result.tag # "Ok"
       /\ Returned => (Unauthorized /\ ~InvalidCommand /\ ~InvalidCallback)
       /\ pc \in {"authorize", "return", "done"}

\* Chat 7 against the authorized id "07": equal as numbers, unequal as strings.
C1_Witness ==
    /\ pc = "done" /\ HasCallback
    /\ Unwrap(update).callback_query[1].data = "request_timings"
    /\ chat_id = Some(7) /\ Unwrap(cfg).allowed_chat_id = <<"0", "7">>
    /\ Unauthorized /\ NoOutboundCall

\* C2: a `request_timings` callback query from the authorized chat issues
\* exactly one arrival fetch; once the fetch has returned its services, exactly
\* one message is sent, after the fetch, and its text holds one block per
\* returned service, in the order returned.
C2_TimingsFetchThenSend ==
    (HasCallback /\ FromAuthorizedChat
        /\ Unwrap(update).callback_query[1].data = "request_timings")
    => /\ Count(calls, "fetch") <= 1 /\ Count(calls, "send") <= 1
       /\ Before(calls, "fetch", "send")
       /\ pc \in {"fetch_json", "send_message", "resp_text", "return", "done"}
             => Count(calls, "fetch") = 1
       /\ Count(calls, "send") = 1 => (Count(calls, "fetch") = 1 /\ IsSome(lta_resp))
       /\ (IsSome(lta_resp) /\ pc \in {"resp_text", "return", "done"})
             => Count(calls, "send") = 1
       /\ IsSome(lta_resp)
             => LET services == Unwrap(lta_resp).services
                    text == Unwrap(telegram_message).text
                IN  /\ Followers(text, "*Service No:* ")
                          = [i \in 1..Len(services) |-> services[i].service_no]
                    /\ Followers(text, "*Next Arrival:* ")
                          = [i \in 1..Len(services) |-> Unwrap(bus_timings)[i].next_arrival[1]]
                    /\ Count(text, Separator) = Len(services)
                    /\ Unwrap(telegram_message).chat_id = Unwrap(chat_id)

C2_Witness ==
    /\ pc = "done" /\ result = OkResponse
    /\ calls = <<"config", "parse", "authorize", "fetch", "send", "ok">>
    /\ Len(Unwrap(lta_resp).services) = 2
    /\ Unwrap(lta_resp).services[1].service_no = "147"
    /\ Unwrap(lta_resp).services[2].service_no = "15"
    /\ Followers(Unwrap(telegram_message).text, "*Service No:* ") = <<"147", "15">>

\* C3: a plain `/start` message from the authorized chat produces exactly one
\* outbound message, carrying the welcome text and the single fixed button,
\* and no arrival fetch.
C3_StartSendsWelcome ==
    (PlainMessage /\ FromAuthorizedChat
        /\ Unwrap(update).message[1].text = Some("/start"))
    => /\ Count(calls, "fetch") = 0
       /\ Count(calls, "send") <= 1
       /\ pc \in {"resp_text", "return", "done"} => Count(calls, "send") = 1
       /\ pc \in {"send_message", "resp_text", "return", "done"}
             => /\ IsSome(telegram_message)
                /\ Unwrap(telegram_message).text = WelcomeMessage
                /\ Unwrap(telegram_message).chat_id = Unwrap(chat_id)
                /\ Unwrap(telegram_message).parse_mode = "MarkdownV2"
                /\ Unwrap(telegram_message).reply_markup
                      = Some([inline_keyboard |->
                                <<<<[text |-> "Request Bus Timings",
                                     callback_data |-> "request_timings"]>>>>])

C3_Witness ==
    /\ pc = "done" /\ PlainMessage /\ result = OkResponse
    /\ Unwrap(update).message[1].text = Some("/start")
    /\ calls = <<"config", "parse", "authorize", "send", "ok">>
    /\ Unwrap(telegram_message).text = WelcomeMessage

(***************************************************************************)
(* Arrival displays.                                                       *)
(***************************************************************************)
Slots == {"next_bus", "next_bus2", "next_bus3"}

DisplayOf(timing, slot) ==
    IF slot = "next_bus" THEN timing.next_arrival
    ELSE IF slot = "next_bus2" THEN timing.next_arrival_2
    ELSE timing.next_arrival_3

\* Epoch seconds of a well-formed "1970-01-01T00:MM:SS+00:00".
WellFormed(t) == t.mm >= 0 /\ t.mm <= 59 /\ t.ss >= 0 /\ t.ss <= 59

EpochSeconds(t) == 60 * t.mm + t.ss

\* P(estimate, display, now) holds of every estimate of every returned service.
EveryDisplay(P(_, _, _)) ==
    IsSome(bus_timings) =>
        \A i \in 1..Len(Unwrap(lta_resp).services), slot \in Slots :
            P(Unwrap(lta_resp).services[i][slot].estimated_arrival,
              DisplayOf(Unwrap(bus_timings)[i], slot), Unwrap(now))

SomeDisplay(P(_, _, _)) ==
    /\ IsSome(bus_timings)
    /\ \E i \in 1..Len(Unwrap(lta_resp).services), slot \in Slots :
            P(Unwrap(lta_resp).services[i][slot].estimated_arrival,
              DisplayOf(Unwrap(bus_timings)[i], slot), Unwrap(now))

DisplayAsClaimed(e, d, n) ==
    IF ~IsSome(e) THEN d = <<"NIL">>
    ELSE WellFormed(Unwrap(e)) =>
            IF EpochSeconds(Unwrap(e)) <= n THEN d = <<"ARR">>
            ELSE d = I64ToString((EpochSeconds(Unwrap(e)) - n) \div 60) \o <<" min">>

\* C4 as stated: absent gives "NIL", estimate <= now gives "ARR", every
\* estimate > now gives "<floor((estimate - now)/60)> min".
C4_AsStated == EveryDisplay(DisplayAsClaimed)

DisplayAmended(e, d, n) ==
    IF ~IsSome(e) THEN d = <<"NIL">>
    ELSE WellFormed(Unwrap(e)) =>
            IF EpochSeconds(Unwrap(e)) < n + 60 THEN d = <<"ARR">>
            ELSE d = I64ToString((EpochSeconds(Unwrap(e)) - n) \div 60) \o <<" min">>

\* C4 (amended): absent gives "NIL"; every estimate less than 60 seconds after
\* now (in particular every estimate <= now) gives "ARR"; every estimate at
\* least 60 seconds after now gives "<floor((estimate - now)/60)> min".
C4_DisplayMapping == EveryDisplay(DisplayAmended)

IsSpecExample(e, d, n) ==
    /\ IsSome(e) /\ WellFormed(Unwrap(e))
    /\ EpochSeconds(Unwrap(e)) = n + 125 /\ d = <<"2", " min">>

IsUnderAMinute(e, d, n) ==
    /\ IsSome(e) /\ WellFormed(Unwrap(e))
    /\ EpochSeconds(Unwrap(e)) = n + 30 /\ d = <<"ARR">>

IsJustPast(e, d, n) ==
    /\ IsSome(e) /\ WellFormed(Unwrap(e))
    /\ EpochSeconds(Unwrap(e)) = n - 10 /\ d = <<"ARR">>

IsAbsent(e, d, n) == ~IsSome(e) /\ d = <<"NIL">>

\* now+125s shown as "2 min", now+30s as "ARR" and an absent estimate as "NIL".
C4_Witness ==
    SomeDisplay(IsSpecExample) /\ SomeDisplay(IsUnderAMinute) /\ SomeDisplay(IsAbsent)

\* now-10s shown as "ARR".
C4_WitnessPast == SomeDisplay(IsJustPast)

UnparseableIsArr(e, d, n) ==
    (IsSome(e) /\ ~WellFormed(Unwrap(e))) => (n >= 0 => d = <<"ARR">>)

\* C9: an estimate that is present but does not parse as a timestamp is
\* displayed as "ARR" for every now >= 0, whatever the service's other two
\* estimates are, and the fetch that returned it does not fail.
C9_UnparseableIsArr ==
    /\ EveryDisplay(UnparseableIsArr)
    /\ IsSome(lta_resp)
          => /\ IsSome(bus_timings)
             /\ Len(Unwrap(bus_timings)) = Len(Unwrap(lta_resp).services)
             /\ ~(result.tag = "Err"
                    /\ result.at \in {"fetch_bus_timings.send", "fetch_bus_timings.json"})

\* One service whose estimates are unparseable, absent and in the future.
C9_Witness ==
    /\ pc = "send_message" /\ IsSome(bus_timings) /\ now = Some(100)
    /\ \E i \in 1..Len(Unwrap(bus_timings)) :
          /\ Unwrap(lta_resp).services[i].next_bus2.estimated_arrival
                = Some([mm |-> 99, ss |-> 0])
          /\ Unwrap(bus_timings)[i].next_arrival = <<"2", " min">>
          /\ Unwrap(bus_timings)[i].next_arrival_2 = <<"ARR">>
          /\ Unwrap(bus_timings)[i].next_arrival_3 = <<"NIL">>

(***************************************************************************)
(* Outcomes of the invocation.                                             *)
(***************************************************************************)
SendReturned == IsSome(tg_resp)

\* C5 as stated: once the send call has succeeded at the transport level the
\* handler returns "OK" whatever happens while the response is read; a
\* transport failure of the send call gives DeliveryFailed and no "OK".
C5_AsStated ==
    Returned =>
        /\ SendReturned => result = OkResponse
        /\ (Count(calls, "send") = 1 /\ ~SendReturned) => DeliveryFailed

\* C5 (amended): once the send call has succeeded at the transport level and
\* the response body has been read, the handler returns "OK" whatever the
\* platform answered (a rejection included); a failure to read the response
\* body fails the handler and no "OK" is returned; a transport failure of the
\* send call gives DeliveryFailed and no "OK".
C5_OkOnceBodyRead ==
    Returned =>
        /\ (SendReturned /\ Unwrap(tg_resp).read) => result = OkResponse
        /\ (SendReturned /\ ~Unwrap(tg_resp).read)
              => (result.tag = "Err" /\ result.at = "resp.text")
        /\ (Count(calls, "send") = 1 /\ ~SendReturned)
              => (DeliveryFailed /\ Count(calls, "ok") = 0)
        /\ result = OkResponse <=> Count(calls, "ok") = 1

\* The platform rejected the message, and the webhook is still answered "OK".
C5_Witness ==
    /\ pc = "done" /\ SendReturned
    /\ Unwrap(tg_resp) = [status |-> "400 Bad Request", read |-> TRUE]
    /\ result = OkResponse

C5_WitnessDeliveryFailed == pc = "done" /\ DeliveryFailed /\ Count(calls, "send") = 1

EmptyUpdate ==
    /\ Count(calls, "parse") = 1
    /\ req.json /\ ~IsSome(req.message) /\ ~IsSome(req.callback_query)

\* C6 as stated: a JSON body with neither `message` nor `callback_query` fails
\* in the parsing step with MalformedPayload, with no outbound call.
C6_AsStated ==
    EmptyUpdate => (NoOutboundCall /\ (Returned => MalformedPayload))

\* C6 (amended): a JSON body with neither `message` nor `callback_query` parses
\* (both fields are None) and fails in the chat id extraction with
\* MissingChatId, "No chat id found in request"; no outbound call is made.
C6_EmptyUpdateMissingChatId ==
    EmptyUpdate =>
        /\ NoOutboundCall
        /\ pc \in {"chat_id", "return", "done"}
        /\ update = Some([message |-> None, callback_query |-> None])
        /\ Returned => (MissingChatId /\ ~MalformedPayload)

C6_Witness == pc = "done" /\ EmptyUpdate /\ MissingChatId /\ error_log = <<result>>

\* C7: a callback query from the authorized chat whose data is not
\* `request_timings` fails with InvalidCallback carrying that data, and no
\* arrival fetch and no send is made.
C7_UnknownCallbackData ==
    (HasCallback /\ FromAuthorizedChat
        /\ Unwrap(update).callback_query[1].data # "request_timings")
    => /\ NoOutboundCall
       /\ telegram_message = None
       /\ Returned
             => /\ InvalidCallback
                /\ result.arg = <<Unwrap(req.callback_query).data>>

C7_Witness ==
    /\ pc = "done" /\ HasCallback /\ FromAuthorizedChat
    /\ InvalidCallback /\ result.arg = <<"foo">> /\ NoOutboundCall

Both == Parsed /\ IsSome(req.callback_query) /\ IsSome(req.message)

\* C8: when an update carries a callback query and a top-level message, the
\* chat id authorized and replied to is the callback query's, and the outcome
\* follows the callback data alone: never the welcome reply, never an error
\* about the message text.
C8_CallbackDecides ==
    Both =>
        /\ IsSome(chat_id) => Unwrap(chat_id) = CallbackChatId
        /\ IsSome(telegram_message)
              => /\ Unwrap(telegram_message).chat_id = CallbackChatId
                 /\ Unwrap(telegram_message).text # WelcomeMessage
                 /\ Count(calls, "fetch") = 1
        /\ ~InvalidCommand /\ ~MissingChatId
        /\ Returned =>
              IF I64ToString(CallbackChatId) # Unwrap(cfg).allowed_chat_id
              THEN Unauthorized /\ NoOutboundCall
              ELSE IF Unwrap(req.callback_query).data # "request_timings"
              THEN InvalidCallback /\ NoOutboundCall
              ELSE Count(calls, "fetch") = 1

\* The message is `/start` from chat 7, the callback query comes from the
\* authorized chat 42: the timings go to chat 42.
C8_Witness ==
    /\ pc = "done" /\ Both /\ result = OkResponse
    /\ Unwrap(req.message).chat[1].id = 7 /\ Unwrap(req.message).text = Some("/start")
    /\ CallbackChatId = 42 /\ Unwrap(telegram_message).chat_id = 42

\* The message is `/start` from the authorized chat, the callback query is not.
C8_WitnessUnauthorized ==
    /\ pc = "done" /\ Both /\ Unauthorized
    /\ Unwrap(req.message).text = Some("/start")
    /\ I64ToString(Unwrap(req.message).chat[1].id) = Unwrap(cfg).allowed_chat_id

StepOrder == <<"config", "parse", "authorize", "fetch", "send", "ok">>

Rank(step) == CHOOSE k \in DOMAIN StepOrder : StepOrder[k] = step

\* C10: the steps config lookup, payload parse, authorization, arrival fetch,
\* send, "OK" occur in that order, each at most once, and only after the
\* earlier steps on the path succeeded: no outbound call after a failed config
\* lookup, no send and an error result after a failed arrival fetch, and no
\* "OK" without exactly one send.
C10_StepsInOrderOnce ==
    /\ \A i, j \in DOMAIN calls : i < j => Rank(calls[i]) < Rank(calls[j])
    /\ IsSome(ConfigError(env)) => (NoOutboundCall /\ Count(calls, "parse") = 0)
    /\ Count(calls, "parse") = 1 => IsSome(cfg)
    /\ Count(calls, "authorize") = 1 => (IsSome(update) /\ IsSome(chat_id))
    /\ Count(calls, "fetch") = 1 => (Count(calls, "authorize") = 1 /\ FromAuthorizedChat)
    /\ Count(calls, "send") = 1
          => /\ Count(calls, "authorize") = 1 /\ FromAuthorizedChat
             /\ IsSome(telegram_message)
             /\ Count(calls, "fetch") = 1 => IsSome(lta_resp)
    /\ (Count(calls, "fetch") = 1 /\ ~IsSome(lta_resp) /\ pc # "fetch_json")
          => (Returned /\ result.tag = "Err" /\ Count(calls, "send") = 0)
    /\ (Count(calls, "ok") = 1 \/ result = OkResponse)
          => (Count(calls, "send") = 1 /\ SendReturned /\ Returned)
    /\ pc = "done" => (result.tag \in {"Ok", "Err"})

C10_Witness ==
    /\ pc = "done"
    /\ calls = <<"config", "parse", "authorize", "fetch">>
    /\ result.tag = "Err" /\ result.at = "fetch_bus_timings.json"

C10_WitnessConfig ==
    pc = "done" /\ calls = <<"config">> /\ result.tag = "Err" /\ result.at = "kv.get"

====
